---- MODULE Spec2Model ----
(***************************************************************************)
(* Model of rebalance.py: one run of main (load or initialise the          *)
(* portfolio, parse the market, rebalance, print, apply_trades, save).     *)
(*                                                                         *)
(* Money is modelled in whole units.  On whole-number operands every sum,  *)
(* product and comparison of the program's doubles is exact, and so is     *)
(* math.floor of a quotient; the quotients target_value / p themselves are *)
(* rounded, and their rounding decides the order of remainders that are    *)
(* equal as real numbers.  That rounding is modelled exactly.              *)
(***************************************************************************)
EXTENDS Integers, Sequences, FiniteSets, TLC

\* ----- bounds of the model ------------------------------------------------
MaxPrice == 4
MaxCash == 3
MaxQty == 1
\* bounds of the inputs given to apply_trades alone
MaxSells == 2
MaxBuys == 1
MaxTradeQty == 1
MaxTradePrice == 2

\* Ticker identifiers "A", "B", "C", ordered as the identifiers sort.
Tickers == 1..3
\* the inputs outside the preconditions: two tickers, values around zero
FewTickers == 1..2
AroundZero == {-1, 0, 1}
\* the reserved ticker of the cash row of SAVED_CSV
CASH == 0

VARIABLES
    pc,                     \* position in main / rebalance / apply_trades
    error,                  \* the exception that ended the run, or "none"
    portfolio_arg,          \* args.portfolio: the parsed text source, if given
    market,                 \* the content of args.market, parsed
    SAVED_CSV,              \* the persisted store
    cash, stocks, prices,   \* main's variables
    total_portfolio_value, new_shares, remaining_cash, remainders, idx,
    sells, buys,            \* rebalance's result
    output,                 \* the printed commands
    a_cash, i,              \* apply_trades' local cash and loop index
    before,                 \* history: the portfolio as loaded
    applied,                \* history: the trades apply_trades has applied
    csv_at_start            \* history: SAVED_CSV when the run began

vars == <<pc, error, portfolio_arg, market, SAVED_CSV, cash, stocks, prices,
          total_portfolio_value, new_shares, remaining_cash, remainders, idx,
          sells, buys, output, a_cash, i, before, applied, csv_at_start>>

hist == <<applied, csv_at_start>>

\* ----- dictionaries -------------------------------------------------------
EmptyDict == [t \in {} |-> 0]

\* dict.get(t, 0)
Get(d, t) == IF t \in DOMAIN d THEN d[t] ELSE 0

\* d[t] = v
Put(d, t, v) == [u \in DOMAIN d \cup {t} |-> IF u = t THEN v ELSE d[u]]

\* del d[t]
Del(d, t) == [u \in DOMAIN d \ {t} |-> d[u]]

\* every dict from a subset of keys K to values V
Dicts(K, V) == UNION {[S -> V] : S \in SUBSET K}

RECURSIVE SumOver(_, _, _)
\* sum(f(t) * g(t) for t in S), with f read through get(t, 0)
SumOver(f, g, S) ==
    IF S = {} THEN 0
    ELSE LET t == CHOOSE u \in S : TRUE
         IN  Get(f, t) * g[t] + SumOver(f, g, S \ {t})

RECURSIVE SortedSeq(_)
\* sorted(S)
SortedSeq(S) ==
    IF S = {} THEN <<>>
    ELSE LET m == CHOOSE x \in S : \A y \in S : x <= y
         IN  <<m>> \o SortedSeq(S \ {m})

\* ----- persistence --------------------------------------------------------
NoFile == [exists |-> FALSE, rows |-> {}]

\* save_portfolio_csv: a CASH row and one row per ticker held
save_portfolio_csv(c, s) ==
    [exists |-> TRUE,
     rows |-> {[ticker |-> CASH, quantity |-> c]}
              \cup {[ticker |-> t, quantity |-> s[t]] : t \in DOMAIN s}]

\* load_saved_portfolio, the rows read back
cash_row(csv) == {r \in csv.rows : r.ticker = CASH}

load_cash(csv) == (CHOOSE r \in cash_row(csv) : TRUE).quantity

load_stocks(csv) ==
    LET rs == {r \in csv.rows : r.ticker # CASH}
    IN  [t \in {r.ticker : r \in rs} |->
            (CHOOSE r \in rs : r.ticker = t).quantity]

\* ----- rebalance: arithmetic ----------------------------------------------
Abs(x) == IF x < 0 THEN -x ELSE x

\* floor(a / b) for b # 0
Floor(a, b) ==
    LET n == IF b < 0 THEN -a ELSE a
        d == Abs(b)
    IN  IF n >= 0 THEN n \div d ELSE -(((-n) + d - 1) \div d)

\* a total that leaves the cash out
StockValueOnly(c, s, p) == SumOver(s, p, DOMAIN p)

\* total_portfolio_value = sum(current_value) + cash
TotalValue(c, s, p) == SumOver(s, p, DOMAIN p) + c

\* the floor of total / p, the division by N forgotten
FloorOfTotal(total, N, p) == Floor(total, p)

\* new_shares[t] = int(math.floor(target_value / p)), target_value = total / N
floor_shares(total, N, p) == Floor(total, N * p)

\* ideal_shares[t] - new_shares[t] as the fraction RemNum / RemDen
RemDen(N, p) == Abs(N * p)

RemNum(total, N, p) ==
    (IF N * p < 0 THEN -total ELSE total) - floor_shares(total, N, p) * RemDen(N, p)

RemGreater(total, N, p, q) ==
    RemNum(total, N, p) * RemDen(N, q) > RemNum(total, N, q) * RemDen(N, p)

RemEqual(total, N, p, q) ==
    RemNum(total, N, p) * RemDen(N, q) = RemNum(total, N, q) * RemDen(N, p)

\* ----- rebalance: the rounding of the two divisions ------------------------
\* target_value = total / N and f = target_value / p are doubles (53-bit
\* significand, round to nearest, ties to even).  The error of the computed
\* remainder f - floor(f) is derived here in whole numbers, in units of the
\* last place of target_value, from the residues of total * 2^s.
RECURSIVE FloorLog2(_, _)
\* floor(log2(a / b)) for a, b > 0
FloorLog2(a, b) ==
    IF a >= 2 * b THEN FloorLog2(a, 2 * b) + 1
    ELSE IF a < b THEN FloorLog2(2 * a, b) - 1
    ELSE 0

RECURSIVE Pow2(_)
Pow2(n) == IF n <= 0 THEN 1 ELSE 2 * Pow2(n - 1)

RECURSIVE Pow2Mod(_, _)
\* 2^e mod n
Pow2Mod(e, n) == IF e <= 0 THEN 1 % n ELSE (2 * Pow2Mod(e - 1, n)) % n

\* the error of the nearest whole number to (a multiple of 1/n with residue u)
NearestError(u, n) == IF u = 0 THEN 0 ELSE IF 2 * u > n THEN n - u ELSE -u

RoundsUp(u, n) == IF 2 * u > n THEN 1 ELSE 0

\* the error <<numerator, denominator>> of the remainder computed for price p
RoundingError(total, N, p) ==
    IF total = 0 THEN <<0, 1>>
    ELSE
    LET A == Abs(total)
        P == Abs(p)
        neg == (total < 0) # (p < 0)
        e1 == FloorLog2(A, N)
        e2 == FloorLog2(A, N * P)
        d == e1 - e2
        \* a negative quotient above -1: 1 - |f| has a coarser last place
        g == IF neg /\ A < N * P
             THEN LET c == FloorLog2(N * P - A, N * P) - e2
                  IN  IF c > 0 THEN c ELSE 0
             ELSE 0
        B == Pow2(g + 1)
        W == (A * Pow2Mod(52 - e1, N * P * B)) % (N * P * B)
        u1 == W % N
        m1 == (((W - u1) \div N) + RoundsUp(u1, N)) % (P * B)
        Y == (m1 * Pow2(d)) % (P * B)
        u2 == Y % P
        ef == NearestError(u2, P) * N + NearestError(u1, N) * Pow2(d)
        m2 == (((Y - u2) \div P) + RoundsUp(u2, P)) % B
        z == (B - m2) % B
        low == z % Pow2(g)
        bit == z \div Pow2(g)
        rho == IF low < Pow2(g - 1) \/ (low = Pow2(g - 1) /\ bit = 0)
               THEN -low ELSE Pow2(g) - low
    IN  IF ~neg THEN <<ef, N * P * Pow2(d)>>
        ELSE IF g = 0 THEN <<-ef, N * P * Pow2(d)>>
        ELSE <<rho * N * P - ef, N * P * Pow2(d)>>

NoiseGreater(total, N, p, q) ==
    RoundingError(total, N, p)[1] * RoundingError(total, N, q)[2]
        > RoundingError(total, N, q)[1] * RoundingError(total, N, p)[2]

NoiseEqual(total, N, p, q) ==
    RoundingError(total, N, p)[1] * RoundingError(total, N, q)[2]
        = RoundingError(total, N, q)[1] * RoundingError(total, N, p)[2]

\* t is placed before u by remainders.sort(key = remainder, reverse = True):
\* larger computed remainder first, equal ones in the order of all_tickers
Before(total, pr, t, u) ==
    LET N == Cardinality(DOMAIN pr)
    IN  \/ RemGreater(total, N, pr[t], pr[u])
        \/ /\ RemEqual(total, N, pr[t], pr[u])
           /\ \/ NoiseGreater(total, N, pr[t], pr[u])
              \/ /\ NoiseEqual(total, N, pr[t], pr[u])
                 /\ t < u

Perms(S) ==
    {s \in [1..Cardinality(S) -> S] : \A a, b \in DOMAIN s : a # b => s[a] # s[b]}

\* the tickers of the sorted list remainders
Ranking(total, pr) ==
    CHOOSE s \in Perms(DOMAIN pr) :
        \A a, b \in DOMAIN s : a < b => Before(total, pr, s[a], s[b])

\* the extra share granted without looking at the leftover cash
AlwaysAfford(price_t, rc) == TRUE

\* if price_t <= remaining_cash
CanAfford(price_t, rc) == price_t <= rc

RECURSIVE Walk(_, _, _, _, _)
\* the loop over remainders from position j on: the final new_shares
Walk(ns, rc, rk, pr, j) ==
    IF j > Len(rk) THEN ns
    ELSE LET t == rk[j]
         IN  IF CanAfford(pr[t], rc)
             THEN Walk([ns EXCEPT ![t] = @ + 1], rc - pr[t], rk, pr, j + 1)
             ELSE Walk(ns, rc, rk, pr, j + 1)

RECURSIVE TradeListReversed(_, _, _, _)
\* the trades inserted at the front of the list instead of appended
TradeListReversed(ts, ns, s, side) ==
    IF ts = <<>> THEN <<>>
    ELSE LET t == Head(ts)
             diff == ns[t] - Get(s, t)
         IN  TradeListReversed(Tail(ts), ns, s, side)
             \o (IF side * diff > 0 THEN <<(<<t, side * diff>>)>> ELSE <<>>)

RECURSIVE TradeList(_, _, _, _)
\* the loop that builds sells (side = -1) or buys (side = 1) over all_tickers
TradeList(ts, ns, s, side) ==
    IF ts = <<>> THEN <<>>
    ELSE LET t == Head(ts)
             diff == ns[t] - Get(s, t)
         IN  (IF side * diff > 0 THEN <<(<<t, side * diff>>)>> ELSE <<>>)
             \o TradeList(Tail(ts), ns, s, side)

\* all_tickers = sorted(prices.keys())
all_tickers(pr) == SortedSeq(DOMAIN pr)

\* rebalance as a function of its arguments
rebalance(c, s, pr) ==
    LET N == Cardinality(DOMAIN pr)
        total == TotalValue(c, s, pr)
        fl == [t \in DOMAIN pr |-> floor_shares(total, N, pr[t])]
        ns == Walk(fl, total - SumOver(fl, pr, DOMAIN pr), Ranking(total, pr), pr, 1)
    IN  [sells |-> TradeList(all_tickers(pr), ns, s, -1),
         buys |-> TradeList(all_tickers(pr), ns, s, 1)]

\* ----- inputs -------------------------------------------------------------
NoArg == [given |-> FALSE, cash |-> 0, stocks |-> EmptyDict]

Arg(c, s) == [given |-> TRUE, cash |-> c, stocks |-> s]

\* the store before a run that is given a text source
OldStore == save_portfolio_csv(1, Put(EmptyDict, 1, 1))

\* a saved file without a CASH row
NoCashStore == [exists |-> TRUE, rows |-> {[ticker |-> 1, quantity |-> 1]}]

Locals ==
    /\ pc = "start" /\ error = "none"
    /\ cash = 0 /\ stocks = EmptyDict /\ prices = EmptyDict
    /\ total_portfolio_value = 0 /\ new_shares = EmptyDict
    /\ remaining_cash = 0 /\ remainders = <<>> /\ idx = 1
    /\ sells = <<>> /\ buys = <<>> /\ output = <<>>
    /\ a_cash = 0 /\ i = 1
    /\ before = [cash |-> 0, stocks |-> EmptyDict]
    /\ applied = <<>>
    /\ csv_at_start = SAVED_CSV

\* a portfolio and a market within the preconditions, given as text
InitInRange ==
    \E c \in 0..MaxCash, s \in Dicts(Tickers, 1..MaxQty),
       pr \in Dicts(Tickers, 1..MaxPrice) :
        /\ market = pr
        /\ portfolio_arg = Arg(c, s)
        /\ SAVED_CSV = OldStore

\* values around zero, some outside the preconditions, given as text or saved
InitAroundZero ==
    \E c \in AroundZero, s \in Dicts(FewTickers, AroundZero),
       pr \in Dicts(FewTickers, AroundZero) :
        /\ market = pr
        /\ \/ portfolio_arg = Arg(c, s) /\ SAVED_CSV = OldStore
           \/ portfolio_arg = NoArg /\ SAVED_CSV = save_portfolio_csv(c, s)

\* no text source and nothing usable saved
InitNoStore ==
    /\ portfolio_arg = NoArg
    /\ SAVED_CSV \in {NoFile, NoCashStore}
    /\ market \in Dicts(Tickers, 1..MaxPrice)

Init == (InitInRange \/ InitAroundZero \/ InitNoStore) /\ Locals

\* ----- main: load or initialise -------------------------------------------
\* main, args.portfolio given: parse, then overwrite the saved CSV
ParseAndSave ==
    /\ pc = "start" /\ portfolio_arg.given
    /\ cash' = portfolio_arg.cash
    /\ stocks' = portfolio_arg.stocks
    /\ SAVED_CSV' = save_portfolio_csv(portfolio_arg.cash, portfolio_arg.stocks)
    /\ before' = [cash |-> portfolio_arg.cash, stocks |-> portfolio_arg.stocks]
    /\ pc' = "loaded"
    /\ UNCHANGED <<error, portfolio_arg, market, prices, total_portfolio_value,
                   new_shares, remaining_cash, remainders, idx, sells, buys,
                   output, a_cash, i, hist>>

\* main, no args.portfolio: load_saved_portfolio succeeds
LoadSaved ==
    /\ pc = "start" /\ ~portfolio_arg.given
    /\ SAVED_CSV.exists /\ cash_row(SAVED_CSV) # {}
    /\ cash' = load_cash(SAVED_CSV)
    /\ stocks' = load_stocks(SAVED_CSV)
    /\ before' = [cash |-> load_cash(SAVED_CSV), stocks |-> load_stocks(SAVED_CSV)]
    /\ pc' = "loaded"
    /\ UNCHANGED <<error, portfolio_arg, market, SAVED_CSV, prices,
                   total_portfolio_value, new_shares, remaining_cash,
                   remainders, idx, sells, buys, output, a_cash, i, hist>>

\* load_saved_portfolio raises: no file, or no CASH row
LoadFail ==
    /\ pc = "start" /\ ~portfolio_arg.given
    /\ IF SAVED_CSV.exists THEN cash_row(SAVED_CSV) = {} ELSE TRUE
    /\ pc' = "failed"
    /\ error' = IF SAVED_CSV.exists THEN "ValueError: missing CASH row"
                ELSE "FileNotFoundError"
    /\ UNCHANGED <<portfolio_arg, market, SAVED_CSV, cash, stocks, prices,
                   total_portfolio_value, new_shares, remaining_cash,
                   remainders, idx, sells, buys, output, a_cash, i, before, hist>>

\* prices = parse_market(args.market)
ParseMarket ==
    /\ pc = "loaded"
    /\ prices' = market
    /\ pc' = "rebalance"
    /\ UNCHANGED <<error, portfolio_arg, market, SAVED_CSV, cash, stocks,
                   total_portfolio_value, new_shares, remaining_cash,
                   remainders, idx, sells, buys, output, a_cash, i, before, hist>>

\* ----- rebalance ----------------------------------------------------------
\* an empty market answered with empty trade lists instead of a failure
EmptyMarketNoTrades ==
    /\ pc = "rebalance" /\ DOMAIN prices = {}
    /\ pc' = "print"
    /\ UNCHANGED <<error, portfolio_arg, market, SAVED_CSV, cash, stocks, prices,
                   total_portfolio_value, new_shares, remaining_cash,
                   remainders, idx, sells, buys, output, a_cash, i, before, hist>>

\* target_value = total_portfolio_value / N with N = 0
EmptyMarketFail ==
    /\ pc = "rebalance" /\ DOMAIN prices = {}
    /\ pc' = "failed"
    /\ error' = "ZeroDivisionError: N"
    /\ UNCHANGED <<portfolio_arg, market, SAVED_CSV, cash, stocks, prices,
                   total_portfolio_value, new_shares, remaining_cash,
                   remainders, idx, sells, buys, output, a_cash, i, before, hist>>

\* f = target_value / p with p = 0
ZeroPriceFail ==
    /\ pc = "rebalance" /\ DOMAIN prices # {}
    /\ \E t \in DOMAIN prices : prices[t] = 0
    /\ pc' = "failed"
    /\ error' = "ZeroDivisionError: price"
    /\ UNCHANGED <<portfolio_arg, market, SAVED_CSV, cash, stocks, prices,
                   total_portfolio_value, new_shares, remaining_cash,
                   remainders, idx, sells, buys, output, a_cash, i, before, hist>>

\* old_qty read with stocks.setdefault(t, 0): rebalance writes to the holdings
RebalanceFloorSetDefault ==
    /\ pc = "rebalance" /\ DOMAIN prices # {}
    /\ \A t \in DOMAIN prices : prices[t] # 0
    /\ LET N == Cardinality(DOMAIN prices)
           total == TotalValue(cash, stocks, prices)
           fl == [t \in DOMAIN prices |-> floor_shares(total, N, prices[t])]
       IN  /\ total_portfolio_value' = total
           /\ new_shares' = fl
           /\ remaining_cash' = total - SumOver(fl, prices, DOMAIN prices)
           /\ remainders' = Ranking(total, prices)
    /\ stocks' = [t \in DOMAIN stocks \cup DOMAIN prices |-> Get(stocks, t)]
    /\ idx' = 1
    /\ pc' = "walk"
    /\ UNCHANGED <<error, portfolio_arg, market, SAVED_CSV, cash,
                   prices, sells, buys, output, a_cash, i, before, hist>>

\* rebalance up to the sort of the remainders
RebalanceFloor ==
    /\ pc = "rebalance" /\ DOMAIN prices # {}
    /\ \A t \in DOMAIN prices : prices[t] # 0
    /\ LET N == Cardinality(DOMAIN prices)
           total == TotalValue(cash, stocks, prices)
           fl == [t \in DOMAIN prices |-> floor_shares(total, N, prices[t])]
       IN  /\ total_portfolio_value' = total
           /\ new_shares' = fl
           /\ remaining_cash' = total - SumOver(fl, prices, DOMAIN prices)
           /\ remainders' = Ranking(total, prices)
    /\ idx' = 1
    /\ pc' = "walk"
    /\ UNCHANGED <<error, portfolio_arg, market, SAVED_CSV, cash, stocks,
                   prices, sells, buys, output, a_cash, i, before, hist>>

\* one iteration of: for t, rem in remainders
WalkStep ==
    /\ pc = "walk" /\ idx <= Len(remainders)
    /\ LET t == remainders[idx]
       IN  IF CanAfford(prices[t], remaining_cash)
           THEN /\ new_shares' = [new_shares EXCEPT ![t] = @ + 1]
                /\ remaining_cash' = remaining_cash - prices[t]
           ELSE UNCHANGED <<new_shares, remaining_cash>>
    /\ idx' = idx + 1
    /\ UNCHANGED <<pc, error, portfolio_arg, market, SAVED_CSV, cash, stocks,
                   prices, total_portfolio_value, remainders, sells, buys,
                   output, a_cash, i, before, hist>>

\* build the sell and buy lists and return them
BuildTrades ==
    /\ pc = "walk" /\ idx > Len(remainders)
    /\ sells' = TradeList(all_tickers(prices), new_shares, stocks, -1)
    /\ buys' = TradeList(all_tickers(prices), new_shares, stocks, 1)
    /\ pc' = "print"
    /\ UNCHANGED <<error, portfolio_arg, market, SAVED_CSV, cash, stocks,
                   prices, total_portfolio_value, new_shares, remaining_cash,
                   remainders, idx, output, a_cash, i, before, hist>>

\* ----- main: print, then call apply_trades --------------------------------
\* one line "!sell TICKER QTY" or "!buy TICKER QTY"
Command(side, trade) ==
    [side |-> side, ticker |-> trade[1], quantity |-> trade[2]]

Commands(side, trades) == [j \in 1..Len(trades) |-> Command(side, trades[j])]

PrintTrades ==
    /\ pc = "print"
    /\ output' = Commands("sell", sells) \o Commands("buy", buys)
    /\ a_cash' = cash
    /\ i' = 1
    /\ pc' = "apply_sells"
    /\ UNCHANGED <<error, portfolio_arg, market, SAVED_CSV, cash, stocks,
                   prices, total_portfolio_value, new_shares, remaining_cash,
                   remainders, idx, sells, buys, before, hist>>

\* ----- apply_trades -------------------------------------------------------
\* if t not in stocks or stocks[t] < qty
CannotSell(s, t, qty) ==
    IF qty <= 0 THEN FALSE
    ELSE IF t \notin DOMAIN s THEN TRUE
    ELSE s[t] < qty

\* cash += qty * prices[t]
SellProceeds(qty, price) == qty * price

\* the cost of a buy with the price left out
BuyCostNoPrice(qty, price) == qty

\* cost = qty * prices[t]
BuyCost(qty, price) == qty * price

\* if cost > cash + 1e-8, on whole units
CannotBuy(cost, c) == cost > c

\* one iteration of the sell loop that does not raise
ApplySell ==
    /\ pc = "apply_sells" /\ i <= Len(sells)
    /\ LET t == sells[i][1]
           qty == sells[i][2]
       IN  /\ ~CannotSell(stocks, t, qty)
           /\ IF qty <= 0
              THEN UNCHANGED <<a_cash, stocks, applied>>
              ELSE /\ a_cash' = a_cash + SellProceeds(qty, prices[t])
                   /\ stocks' = IF stocks[t] - qty = 0
                                THEN Del(stocks, t)
                                ELSE Put(stocks, t, stocks[t] - qty)
                   /\ applied' = Append(applied, Command("sell", sells[i]))
    /\ i' = i + 1
    /\ UNCHANGED <<pc, error, portfolio_arg, market, SAVED_CSV, cash, prices,
                   total_portfolio_value, new_shares, remaining_cash,
                   remainders, idx, sells, buys, output, before, csv_at_start>>

\* the sell loop raises ValueError; the exception leaves apply_trades, whose
\* local cash is lost, while stocks was updated in place
ApplySellFail ==
    /\ pc = "apply_sells" /\ i <= Len(sells)
    /\ CannotSell(stocks, sells[i][1], sells[i][2])
    /\ pc' = "failed"
    /\ error' = "ValueError: cannot sell"
    /\ UNCHANGED <<portfolio_arg, market, SAVED_CSV, cash, stocks, prices,
                   total_portfolio_value, new_shares, remaining_cash,
                   remainders, idx, sells, buys, output, a_cash, i, before, hist>>

\* the sell loop ends
SellsDone ==
    /\ pc = "apply_sells" /\ i > Len(sells)
    /\ pc' = "apply_buys"
    /\ i' = 1
    /\ UNCHANGED <<error, portfolio_arg, market, SAVED_CSV, cash, stocks,
                   prices, total_portfolio_value, new_shares, remaining_cash,
                   remainders, idx, sells, buys, output, a_cash, before, hist>>

\* one iteration of the buy loop that does not raise
ApplyBuy ==
    /\ pc = "apply_buys" /\ i <= Len(buys)
    /\ LET t == buys[i][1]
           qty == buys[i][2]
           cost == BuyCost(qty, prices[t])
       IN  /\ ~CannotBuy(cost, a_cash)
           /\ a_cash' = a_cash - cost
           /\ stocks' = Put(stocks, t, Get(stocks, t) + qty)
    /\ applied' = Append(applied, Command("buy", buys[i]))
    /\ i' = i + 1
    /\ UNCHANGED <<pc, error, portfolio_arg, market, SAVED_CSV, cash, prices,
                   total_portfolio_value, new_shares, remaining_cash,
                   remainders, idx, sells, buys, output, before, csv_at_start>>

\* the buy loop raises ValueError
ApplyBuyFail ==
    /\ pc = "apply_buys" /\ i <= Len(buys)
    /\ CannotBuy(BuyCost(buys[i][2], prices[buys[i][1]]), a_cash)
    /\ pc' = "failed"
    /\ error' = "ValueError: not enough cash"
    /\ UNCHANGED <<portfolio_arg, market, SAVED_CSV, cash, stocks, prices,
                   total_portfolio_value, new_shares, remaining_cash,
                   remainders, idx, sells, buys, output, a_cash, i, before, hist>>

\* the value apply_trades returns is dropped: main keeps its old cash
ApplyReturnDropped ==
    /\ pc = "apply_buys" /\ i > Len(buys)
    /\ pc' = "save"
    /\ UNCHANGED <<error, portfolio_arg, market, SAVED_CSV, cash, stocks, prices,
                   total_portfolio_value, new_shares, remaining_cash,
                   remainders, idx, sells, buys, output, a_cash, i, before, hist>>

\* return cash, stocks; main assigns them
ApplyReturn ==
    /\ pc = "apply_buys" /\ i > Len(buys)
    /\ cash' = a_cash
    /\ pc' = "save"
    /\ UNCHANGED <<error, portfolio_arg, market, SAVED_CSV, stocks, prices,
                   total_portfolio_value, new_shares, remaining_cash,
                   remainders, idx, sells, buys, output, a_cash, i, before, hist>>

\* ----- main: save ---------------------------------------------------------
FinalSave ==
    /\ pc = "save"
    /\ SAVED_CSV' = save_portfolio_csv(cash, stocks)
    /\ pc' = "done"
    /\ UNCHANGED <<error, portfolio_arg, market, cash, stocks, prices,
                   total_portfolio_value, new_shares, remaining_cash,
                   remainders, idx, sells, buys, output, a_cash, i, before, hist>>

apply_trades ==
    \/ ApplySell
    \/ ApplySellFail
    \/ SellsDone
    \/ ApplyBuy
    \/ ApplyBuyFail
    \/ ApplyReturn

Next ==
    \/ ParseAndSave
    \/ LoadSaved
    \/ LoadFail
    \/ ParseMarket
    \/ EmptyMarketFail
    \/ ZeroPriceFail
    \/ RebalanceFloor
    \/ WalkStep
    \/ BuildTrades
    \/ PrintTrades
    \/ ApplySell
    \/ ApplySellFail
    \/ SellsDone
    \/ ApplyBuy
    \/ ApplyBuyFail
    \/ ApplyReturn
    \/ FinalSave

Spec == Init /\ [][Next]_vars

\* ----- apply_trades called on its own --------------------------------------
\* every list of at most n trades over tickers K with quantities 0..q
TradeLists(K, q, n) == UNION {[1..m -> K \X (0..q)] : m \in 0..n}

\* a caller hands apply_trades a portfolio, prices and any trade lists, for
\* instance lists computed from other prices
InitApply ==
    /\ pc = "apply_sells" /\ error = "none"
    /\ portfolio_arg = NoArg /\ SAVED_CSV = NoFile /\ csv_at_start = NoFile
    /\ cash \in 0..MaxTradePrice
    /\ stocks \in Dicts(FewTickers, 0..MaxTradeQty)
    /\ prices \in [FewTickers -> 1..MaxTradePrice]
    /\ market = prices
    /\ sells \in TradeLists(FewTickers, MaxTradeQty, MaxSells)
    /\ buys \in TradeLists(FewTickers, MaxTradeQty, MaxBuys)
    /\ total_portfolio_value = 0 /\ new_shares = EmptyDict
    /\ remaining_cash = 0 /\ remainders = <<>> /\ idx = 1
    /\ output = <<>>
    /\ a_cash = cash /\ i = 1
    /\ before = [cash |-> cash, stocks |-> stocks]
    /\ applied = <<>>

SpecApply == InitApply /\ [][apply_trades]_vars

\* ----- properties -----------------------------------------------------------
\* the preconditions of rebalance: a price table that is not empty, prices > 0,
\* cash >= 0, holdings >= 0
ValidInput(c, s, pr) ==
    /\ DOMAIN pr # {}
    /\ \A t \in DOMAIN pr : pr[t] > 0
    /\ c >= 0
    /\ \A t \in DOMAIN s : s[t] >= 0

\* the preconditions hold of the portfolio loaded and the prices
Valid == ValidInput(before.cash, before.stocks, prices)

\* cash plus the value of the priced holdings
Value(c, s, pr) == c + SumOver(s, pr, DOMAIN pr)

NPriced == Cardinality(DOMAIN prices)

\* rebalance has returned its trade lists
Returned == pc \in {"print", "apply_sells", "apply_buys", "save", "done"}
            \/ (pc = "failed" /\ error \in {"ValueError: cannot sell",
                                            "ValueError: not enough cash"})

InApply == pc \in {"apply_sells", "apply_buys"}

Applied == pc \in {"save", "done"}

\* C1: for a valid input the value of cash plus priced holdings after
\* apply_trades equals the value before rebalance (and so it does after every
\* single trade applied).
C1_ValueConservation ==
    Valid =>
        /\ InApply =>
              Value(a_cash, stocks, prices) = Value(before.cash, before.stocks, prices)
        /\ Applied =>
              Value(cash, stocks, prices) = Value(before.cash, before.stocks, prices)

C1_Witness ==
    /\ Valid /\ pc = "save"
    /\ sells # <<>> /\ buys # <<>>
    /\ cash # before.cash

\* the final quantity of t exceeds floor(target_value / price): an extra share
Granted(t) ==
    new_shares[t] >
        Floor(Value(before.cash, before.stocks, prices), NPriced * prices[t])

\* C2 (as claimed): for a valid input every final quantity q of a priced ticker
\* satisfies target_value - price <= q * price <= target_value, also for the
\* tickers granted an extra share.
C2_Original ==
    (Valid /\ Returned) =>
        \A t \in DOMAIN prices :
            LET total == Value(before.cash, before.stocks, prices)
                alloc == NPriced * new_shares[t] * prices[t]
            IN  /\ total - NPriced * prices[t] <= alloc
                /\ alloc <= total

\* C2 (amended): for a valid input every final quantity q of a priced ticker
\* satisfies target_value - price <= q * price <= target_value + price, and
\* q * price <= target_value holds exactly for the tickers not granted an
\* extra share.
C2_EqualSplit ==
    (Valid /\ Returned) =>
        \A t \in DOMAIN prices :
            LET total == Value(before.cash, before.stocks, prices)
                alloc == NPriced * new_shares[t] * prices[t]
            IN  /\ total - NPriced * prices[t] <= alloc
                /\ alloc <= total + NPriced * prices[t]
                /\ (alloc <= total) <=> ~Granted(t)

C2_Witness ==
    /\ Valid /\ pc = "print"
    /\ \E t, u \in DOMAIN prices : Granted(t) /\ ~Granted(u)

\* C3: for a valid input no sell and no buy of the batch fails, the leftover
\* cash of rebalance is never negative, and cash and every holding stay >= 0
\* at every step of the application and at its end.
C3_SelfConsistent ==
    Valid =>
        /\ pc # "failed"
        /\ remaining_cash >= 0
        /\ a_cash >= 0 /\ cash >= 0
        /\ \A t \in DOMAIN stocks : stocks[t] >= 0

C3_Witness ==
    /\ Valid /\ pc = "save"
    /\ Len(sells) >= 1 /\ Len(buys) >= 2
    /\ cash = 0

\* C4: for a valid input, rebalance run again on the cash and holdings that
\* apply_trades returned, with the same prices, returns no sell and no buy.
C4_Idempotent ==
    (Valid /\ pc = "save") =>
        /\ rebalance(cash, stocks, prices).sells = <<>>
        /\ rebalance(cash, stocks, prices).buys = <<>>

C4_Witness ==
    /\ Valid /\ pc = "save"
    /\ sells # <<>> /\ buys # <<>>
    /\ cash > 0

Ascending(trades) ==
    \A a, b \in DOMAIN trades : a < b => trades[a][1] < trades[b][1]

\* C5: the sells and the buys are each strictly ascending by ticker, no ticker
\* is both sold and bought, the output lists every sell before every buy, and
\* apply_trades applies the trades in the order of the output.
C5_SellBeforeBuy ==
    /\ Ascending(sells) /\ Ascending(buys)
    /\ \A a \in DOMAIN sells, b \in DOMAIN buys : sells[a][1] # buys[b][1]
    /\ \A a, b \in DOMAIN output :
          (output[a].side = "buy" /\ output[b].side = "sell") => b < a
    /\ (InApply \/ Applied) =>
          /\ output = Commands("sell", sells) \o Commands("buy", buys)
          /\ Len(applied) <= Len(output)
          /\ applied = SubSeq(output, 1, Len(applied))
    /\ Applied => applied = output

C5_Witness ==
    /\ pc = "apply_buys" /\ i = 2
    /\ Len(sells) >= 1 /\ Len(buys) >= 2
    /\ Len(applied) = Len(sells) + 1

ZeroDivision == error \in {"ZeroDivisionError: N", "ZeroDivisionError: price"}

RECURSIVE NetCash(_, _)
\* the cash the commands cs bring in, at prices pr
NetCash(cs, pr) ==
    IF cs = <<>> THEN 0
    ELSE (IF Head(cs).side = "sell" THEN 1 ELSE -1)
             * Head(cs).quantity * pr[Head(cs).ticker]
         + NetCash(Tail(cs), pr)

RECURSIVE NetShares(_, _)
\* the shares of t the commands cs add
NetShares(cs, t) ==
    IF cs = <<>> THEN 0
    ELSE (IF Head(cs).ticker # t THEN 0
          ELSE IF Head(cs).side = "sell" THEN -Head(cs).quantity
          ELSE Head(cs).quantity)
         + NetShares(Tail(cs), t)

\* C7 (as claimed): when apply_trades fails, the caller's cash and holdings are
\* the ones reached by the trades applied before the failing trade.
C7_Original ==
    pc = "failed" =>
        /\ cash = before.cash + NetCash(applied, prices)
        /\ \A t \in DOMAIN prices :
              Get(stocks, t) = Get(before.stocks, t) + NetShares(applied, t)

SavedArg == save_portfolio_csv(portfolio_arg.cash, portfolio_arg.stocks)

\* C8: at the end of a run SAVED_CSV holds its content from before the run if
\* the run failed before any save, the portfolio parsed from the text source
\* if it failed after the initial save, and the portfolio with every printed
\* trade applied if it completed; until the final save it holds nothing else.
C8_PersistedOutcomes ==
    /\ (pc = "failed" /\ ~portfolio_arg.given) => SAVED_CSV = csv_at_start
    /\ (pc = "failed" /\ portfolio_arg.given) => SAVED_CSV = SavedArg
    /\ pc # "done" => SAVED_CSV \in {csv_at_start, SavedArg}
    /\ pc = "done" =>
          /\ applied = output
          /\ SAVED_CSV = save_portfolio_csv(cash, stocks)
          /\ cash = before.cash + NetCash(output, prices)
          /\ \A t \in DOMAIN stocks \cup DOMAIN before.stocks \cup DOMAIN prices :
                Get(stocks, t) = Get(before.stocks, t) + NetShares(output, t)

C8_Witness ==
    /\ pc = "done" /\ portfolio_arg.given
    /\ Len(output) >= 2
    /\ SAVED_CSV # SavedArg /\ SAVED_CSV # csv_at_start

\* C9 (as claimed): the tickers are visited once each in order of remainder
\* descending, equal remainders in order of ticker ascending, and every final
\* quantity is floor(target_value / price) or that plus 1.
C9_Original ==
    (Valid /\ (pc = "walk" \/ Returned)) =>
        /\ {remainders[a] : a \in DOMAIN remainders} = DOMAIN prices
        /\ Len(remainders) = NPriced
        /\ \A a, b \in DOMAIN remainders :
              a < b =>
                 LET t == remainders[a]
                     u == remainders[b]
                 IN  \/ RemGreater(total_portfolio_value, NPriced, prices[t], prices[u])
                     \/ /\ RemEqual(total_portfolio_value, NPriced, prices[t], prices[u])
                        /\ t < u
        /\ Returned =>
              \A t \in DOMAIN prices :
                 new_shares[t] - Floor(total_portfolio_value, NPriced * prices[t])
                    \in {0, 1}

\* C10: a ticker held but not priced adds nothing to the total, is in no trade
\* and keeps its holdings entry through apply_trades; rebalance leaves cash,
\* holdings and prices as they were.
C10_UnpricedUntouched ==
    /\ (pc = "walk" \/ Returned) =>
          /\ total_portfolio_value
                = before.cash + SumOver(before.stocks, prices,
                                        DOMAIN prices \cap DOMAIN before.stocks)
          /\ prices = market
    /\ pc \in {"walk", "print"} =>
          cash = before.cash /\ stocks = before.stocks
    /\ \A a \in DOMAIN sells : sells[a][1] \in DOMAIN prices
    /\ \A a \in DOMAIN buys : buys[a][1] \in DOMAIN prices
    /\ \A a \in DOMAIN output : output[a].ticker \in DOMAIN prices
    /\ Returned =>
          \A t \in Tickers \ DOMAIN prices :
             /\ t \in DOMAIN stocks <=> t \in DOMAIN before.stocks
             /\ Get(stocks, t) = Get(before.stocks, t)

C10_Witness ==
    /\ pc = "save" /\ output # <<>>
    /\ \E t \in DOMAIN stocks \ DOMAIN prices : stocks[t] > 0

====
